---- MODULE Spec2Model ----
(***************************************************************************)
(* The hermes coordinator of paho.mqtt.golang: the per-device send gate    *)
(* (registry of tickers, send intervals and canSend flags), the sendTimer  *)
(* goroutine that owns it, and the inbound handlers that feed it.          *)
(*                                                                         *)
(* Goroutines are modelled explicitly.  Callers are the goroutines of      *)
(* Threads, each either idle or somewhere inside one call; the sendTimer   *)
(* goroutine is the record owner.  The two control channels are unbuffered,*)
(* so a send is a thread parked at "send_set"/"send_reset" until the owner *)
(* takes its message.  h.rwMutex is the variable rwMutex.                  *)
(*                                                                         *)
(* Spec is the send gate under two callers.  SpecNegotiation adds the      *)
(* outbound requests, the ping and the liveness flag; SpecNudge is         *)
(* checkNeedNewInterval and SpecParse is parseTopicMac, each on its own.   *)
(* SpecOrder is one sender of TimerSets beside a sender of TimerResets,    *)
(* SpecLive the send gate under fair scheduling and SpecHandlers the       *)
(* handler list.                                                           *)
(***************************************************************************)
EXTENDS Integers, Sequences, FiniteSets, TLC

(***************************************************************************)
(* Bounds of the model.                                                    *)
(***************************************************************************)
\* control messages (setTimer and resetTimer sends) started in one run
MaxCtl == 2
\* width of time.Duration in the model; the program's is 64 bits
DurationBits == 8

(***************************************************************************)
(* Strings.  A string is the sequence of its colon-separated groups, a     *)
(* group the sequence of its characters, so that the shape of a MAC        *)
(* address is something the model can look at.  A topic is the sequence of *)
(* its slash-separated segments.                                           *)
(***************************************************************************)
EmptyString == << <<>> >>

HexDigits == {"0", "1", "A", "B", "C", "D", "E", "F"}

Mac1 == << <<"A","A">>, <<"B","B">>, <<"C","C">>, <<"D","D">>, <<"E","E">>, <<"F","F">> >>
Mac2 == << <<"A","A">>, <<"B","B">>, <<"C","C">>, <<"D","D">>, <<"E","E">>, <<"F","B">> >>
\* five groups only: not a MAC
ShortMac == << <<"A","A">>, <<"B","B">>, <<"C","C">>, <<"D","D">>, <<"E","E">> >>

Word_hermes  == << <<"h","e","r","m","e","s">> >>
Word_node    == << <<"n","o","d","e">> >>
Word_gw      == << <<"g","w">> >>
Word_hades   == << <<"h","a","d","e","s">> >>
Word_model   == << <<"m","o","d","e","l">> >>
Word_interval == << <<"i","n","t","e","r","v","a","l">> >>
Word_receive == << <<"r","e","c","e","i","v","e">> >>
Word_global  == << <<"g","l","o","b","a","l">> >>
Word_request == << <<"r","e","q","u","e","s","t">> >>
Word_ping    == << <<"p","i","n","g">> >>
\* the wildcard of one topic level
Plus         == << <<"+">> >>

\* the device ids the callers ask about; control messages are sent for Mac1
\* only, so that Mac2 is a device for which no TimerSet is ever processed
Macs == {Mac1, Mac2}

(***************************************************************************)
(* time.Duration: a signed integer of DurationBits bits counting seconds   *)
(* (the program's counts nanoseconds in 64 bits).                          *)
(***************************************************************************)
Second == 1
Minute == 60


RECURSIVE Pow2(_)
Pow2(n) == IF n = 0 THEN 1 ELSE 2 * Pow2(n - 1)

\* two's-complement wrap of an integer into the range of a Duration
Wrap(x) ==
    LET m == Pow2(DurationBits)
        r == x % m
    IN  IF r >= m \div 2 THEN r - m ELSE r

\* Go's a * b on Durations
Mul(a, b) == Wrap(a * b)

\* the zero value of time.Time
ZeroTime == 0

\* the readings of time.Now()
MaxClock == 2

TimerSendInterval == "timerSendInterval"

\* the zero value of *Timer fields, for frames that hold no message
NoTimer == [duration |-> 0, timerType |-> "", mac |-> EmptyString]

(***************************************************************************)
(* parseTopicMac: the segment of the topic that has the shape of a MAC     *)
(* address, or the empty string.                                           *)
(***************************************************************************)
\* a group of any two characters
IsHexGroup_AnyPair(g) == Len(g) = 2

IsHexGroup(g) == Len(g) = 2 /\ \A i \in 1..2 : g[i] \in HexDigits

IsMacShape(seg) == Len(seg) = 6 /\ \A i \in 1..6 : IsHexGroup(seg[i])

parseTopicMac(topic) ==
    LET hits == {i \in 1..Len(topic) : IsMacShape(topic[i])}
    IN  IF hits = {} THEN EmptyString
        ELSE topic[CHOOSE i \in hits : \A j \in hits : i <= j]

\* segments that are not a device id: six groups with a group of three
\* characters, six groups with a group that is not hexadecimal, seven groups,
\* and text with a colon in it
LongGroupMac == << <<"A","A","A">>, <<"B","B">>, <<"C","C">>, <<"D","D">>, <<"E","E">>, <<"F","F">> >>
NonHexMac == << <<"G","G">>, <<"B","B">>, <<"C","C">>, <<"D","D">>, <<"E","E">>, <<"F","F">> >>
SevenGroups == << <<"A","A">>, <<"B","B">>, <<"C","C">>, <<"D","D">>, <<"E","E">>, <<"F","F">>, <<"0","1">> >>
ColonText == << <<"r","a","n","d","o","m">>, <<"t","e","x","t">> >>

\* segments in the longest topic given to the parser
MaxSegments == 3

ParseSegments ==
    {Mac1, ShortMac, LongGroupMac, NonHexMac, SevenGroups, ColonText, Word_hermes,
     EmptyString}

\* the topics given to the parser: every topic of one to MaxSegments of these
\* segments, the empty topic (one empty segment) among them
ParseInputs == UNION {[1..n -> ParseSegments] : n \in 1..MaxSegments}

\* a topic the broker delivers to a handler subscribed to hermes/node/+/+/hades/<kind>/receive
InboundTopic(seg, kind) ==
    <<Word_hermes, Word_node, Word_gw, seg, Word_hades, kind, Word_receive>>

ModelTopics == {InboundTopic(s, Word_model) : s \in {Mac1, ShortMac}}

(***************************************************************************)
(* The body of an interval message and json.Unmarshal into a               *)
(* SendIntervalPayload.  A body that is not JSON leaves the payload at its *)
(* zero value; a body whose "mac" is not a string makes Unmarshal return   *)
(* an UnmarshalTypeError after it has decoded the other fields.            *)
(***************************************************************************)
\* send_interval values in the bodies; 65 minutes overflow a Duration of
\* DurationBits bits the way 2^53 + 1 minutes overflow one of 64 bits
IntervalInputs == {-1, 0, 2, 65}

Body(syntax, macIsString, n) ==
    [syntax |-> syntax, macIsString |-> macIsString, send_interval |-> n]

Unmarshal(body) ==
    IF ~body.syntax THEN [err |-> TRUE, SendInterval |-> 0]
    ELSE [err |-> ~body.macIsString, SendInterval |-> body.send_interval]

\* the interval messages delivered: every send_interval for a device, a body
\* with a mistyped field, a body that is not JSON, and a topic without a MAC
IntervalMessages ==
    {[topic |-> InboundTopic(Mac1, Word_interval), body |-> Body(TRUE, TRUE, n)] :
         n \in IntervalInputs}
    \cup {[topic |-> InboundTopic(Mac1, Word_interval), body |-> Body(TRUE, FALSE, 2)],
          [topic |-> InboundTopic(Mac1, Word_interval), body |-> Body(FALSE, TRUE, 2)],
          [topic |-> InboundTopic(ShortMac, Word_interval), body |-> Body(TRUE, TRUE, 2)]}

\* the durations callers pass to SetSendInterval
SetInputs == {0, 5 * Second}

(***************************************************************************)
(* State.                                                                  *)
(***************************************************************************)
VARIABLES
    currentSendInterval, \* h.currentSendInterval: map mac -> Duration
    sendTicker,          \* h.sendTicker: map mac -> index into tickers
    canSend,             \* h.canSend: map mac -> bool
    rwMutex,             \* h.rwMutex: [writer, readers]
    initialModel,        \* h.initialModel
    models,              \* model files written, by the mac in their name
    tickers,             \* every *time.Ticker created: [period, stopped, pending]
    thread,              \* the frame of each calling goroutine
    owner,               \* the frame of the sendTimer goroutine
    ticked,              \* history: mac -> its ticker fired since it was armed or last asked
    processed,           \* history: mac -> the interval the last TimerSet processed for it asked for
    ctl,                 \* history: control operations started
    lastModelUpdate,     \* h.lastModelUpdate
    serverAlive,         \* h.serverAlive
    lastCheck,           \* h.lastCheck
    counter,             \* h.counter: map mac -> int
    handlers             \* h.handlers: the Topic of each TopicHandler

registry == <<currentSendInterval, sendTicker, canSend>>

\* the fields the send gate never touches
negotiation == <<lastModelUpdate, serverAlive, lastCheck, counter, handlers>>

vars == <<currentSendInterval, sendTicker, canSend, rwMutex, initialModel, models,
          tickers, thread, owner, ticked, processed, ctl,
          lastModelUpdate, serverAlive, lastCheck, counter, handlers>>

Threads == {"t1", "t2"}
TimerOwner == "sendTimer"
Nobody == "nobody"

\* Go map assignment m[k] = v
MapPut(m, k, v) == [x \in (DOMAIN m) \cup {k} |-> IF x = k THEN v ELSE m[x]]

\* Go map read m[k] with the zero value for a missing key
MapGet(m, k, zero) == IF k \in DOMAIN m THEN m[k] ELSE zero

EmptyMap == [x \in {} |-> 0]

\* the topics of the handlers Initialize() registers
HandlerTopics ==
    << <<Word_node, Plus, Plus, Word_hades, Word_model, Word_receive>>,
       <<Word_node, Plus, Plus, Word_hades, Word_interval, Word_receive>> >>

\* a goroutine outside any call.  ok, dur and err hold what a call returned
\* while the frame is at "ret"; armed, open and want are history taken with
\* them.  topic and payload are the arguments of the Publish the call makes
\* and sent the Publish calls it has made.  i is the index of the loop of
\* GetHandlers and list the topics of the handlers a call has returned.
IdleFrame ==
    [pc |-> "idle", op |-> "", mac |-> EmptyString, msg |-> NoTimer, want |-> 0,
     err |-> FALSE, SendInterval |-> 0, ok |-> FALSE, dur |-> 0,
     armed |-> FALSE, open |-> FALSE,
     topic |-> <<>>, payload |-> <<>>, sent |-> <<>>, i |-> 0, list |-> <<>>]

\* Initialize(): empty maps, unbuffered channels, initialModel true
Init ==
    /\ currentSendInterval = EmptyMap
    /\ sendTicker = EmptyMap
    /\ canSend = EmptyMap
    /\ rwMutex = [writer |-> Nobody, readers |-> {}]
    /\ initialModel = TRUE
    /\ models = {}
    /\ tickers = <<>>
    /\ thread = [t \in Threads |-> IdleFrame]
    /\ owner = [pc |-> "select", newTime |-> NoTimer, mac |-> EmptyString, want |-> 0]
    /\ ticked = EmptyMap
    /\ processed = EmptyMap
    /\ ctl = 0
    /\ lastModelUpdate = ZeroTime
    /\ serverAlive = FALSE
    /\ lastCheck = ZeroTime
    /\ counter = EmptyMap
    /\ handlers = HandlerTopics

(***************************************************************************)
(* h.rwMutex.  Every use in this revision of the registry is Lock/Unlock.  *)
(***************************************************************************)
\* a Lock() that excludes nobody
CanLock_NoExclusion == TRUE

\* Lock() returns only when no goroutine holds the mutex
CanLock == rwMutex.writer = Nobody /\ rwMutex.readers = {}

Locked(who) == [rwMutex EXCEPT !.writer = who]

Unlocked == [rwMutex EXCEPT !.writer = Nobody]

(***************************************************************************)
(* time.Ticker.  The channel C has room for one tick; a tick that finds it *)
(* full is dropped.  NewTicker panics unless the period is positive.       *)
(***************************************************************************)
NewTicker(d) == [period |-> d, stopped |-> FALSE, pending |-> FALSE]

Stop(k) == [tickers EXCEPT ![k].stopped = TRUE]

\* the runtime fires ticker k
Tick(k) ==
    /\ ~tickers[k].stopped
    /\ ~tickers[k].pending
    /\ tickers' = [tickers EXCEPT ![k].pending = TRUE]
    /\ ticked' = [m \in DOMAIN ticked |-> ticked[m] \/ MapGet(sendTicker, m, 0) = k]
    /\ UNCHANGED <<currentSendInterval, sendTicker, canSend, rwMutex, initialModel,
                   models, thread, owner, processed, ctl>>
    /\ UNCHANGED negotiation

\* a caller takes the value its call returned
Return(t) ==
    /\ thread[t].pc = "ret"
    /\ thread' = [thread EXCEPT ![t] = IdleFrame]
    /\ UNCHANGED <<currentSendInterval, sendTicker, canSend, rwMutex, initialModel,
                   models, tickers, owner, ticked, processed, ctl>>
    /\ UNCHANGED negotiation

(***************************************************************************)
(* GetCanSend(mac)                                                         *)
(***************************************************************************)
\* "no rules are set - allow send"
NoRules(mac) == Cardinality(DOMAIN canSend) = 0 \/ mac \notin DOMAIN sendTicker

\* a receive that leaves the tick in the channel
Drained_Peek(tk) == tk

\* the ticker after the non-blocking receive of the select statement
Drained(tk) == [tk EXCEPT !.pending = FALSE]

\* a gate that is always open
CanSendResult_Open(mac) == TRUE

\* what GetCanSend returns at its last line
CanSendResult(mac) == MapGet(canSend, mac, FALSE)

\* h.rwMutex.Lock(); the test of the rules; the select statement:
\* select { case <-h.sendTicker[mac].C: canSend = true; default: canSend = false }
GetCanSend(t, mac) ==
    /\ thread[t].pc = "idle"
    /\ CanLock
    /\ rwMutex' = Locked(t)
    /\ IF NoRules(mac)
       THEN /\ thread' = [thread EXCEPT ![t] =
                   [IdleFrame EXCEPT !.pc = "gcs_true", !.op = "GetCanSend", !.mac = mac]]
            /\ UNCHANGED <<canSend, tickers, ticked>>
       ELSE LET k == sendTicker[mac] IN
            /\ canSend' = MapPut(canSend, mac, tickers[k].pending)
            /\ tickers' = [tickers EXCEPT ![k] = IF @.pending THEN Drained(@) ELSE @]
            /\ ticked' = MapPut(ticked, mac, FALSE)
            /\ thread' = [thread EXCEPT ![t] =
                   [IdleFrame EXCEPT !.pc = "gcs_return", !.op = "GetCanSend",
                                     !.mac = mac, !.open = MapGet(ticked, mac, FALSE)]]
    /\ UNCHANGED <<currentSendInterval, sendTicker, initialModel, models,
                   owner, processed, ctl>>
    /\ UNCHANGED negotiation

\* return true, or return h.canSend[mac]; and the deferred Unlock
GcsReturn(t) ==
    LET mac == thread[t].mac IN
    /\ thread[t].pc \in {"gcs_true", "gcs_return"}
    /\ rwMutex' = Unlocked
    /\ thread' = [thread EXCEPT
           ![t].pc = "ret",
           ![t].ok = IF thread[t].pc = "gcs_true" THEN TRUE ELSE CanSendResult(mac),
           ![t].armed = mac \in DOMAIN processed]
    /\ UNCHANGED <<currentSendInterval, sendTicker, canSend, initialModel, models,
                   tickers, owner, ticked, processed, ctl>>
    /\ UNCHANGED negotiation

(***************************************************************************)
(* GetCurrentSendInterval(mac)                                             *)
(***************************************************************************)
\* the stored interval without the default
SendIntervalResult_NoDefault(mac) == MapGet(currentSendInterval, mac, 0)

\* the stored interval, or one second when none (or zero) is stored
SendIntervalResult(mac) ==
    IF MapGet(currentSendInterval, mac, 0) = 0
    THEN Second * 1
    ELSE currentSendInterval[mac]

GetCurrentSendInterval(t, mac) ==
    /\ thread[t].pc = "idle"
    /\ CanLock
    /\ rwMutex' = Locked(t)
    /\ thread' = [thread EXCEPT ![t] = [IdleFrame EXCEPT !.pc = "gsi_read",
                                        !.op = "GetCurrentSendInterval", !.mac = mac]]
    /\ UNCHANGED <<currentSendInterval, sendTicker, canSend, initialModel, models,
                   tickers, owner, ticked, processed, ctl>>
    /\ UNCHANGED negotiation

GsiReturn(t) ==
    LET mac == thread[t].mac IN
    /\ thread[t].pc = "gsi_read"
    /\ rwMutex' = Unlocked
    /\ thread' = [thread EXCEPT ![t].pc = "ret", ![t].dur = SendIntervalResult(mac),
                                ![t].armed = mac \in DOMAIN processed,
                                ![t].want = MapGet(processed, mac, 0)]
    /\ UNCHANGED <<currentSendInterval, sendTicker, canSend, initialModel, models,
                   tickers, owner, ticked, processed, ctl>>
    /\ UNCHANGED negotiation

(***************************************************************************)
(* The senders of control messages.  A sender stays at "send_set" or       *)
(* "send_reset" until the sendTimer goroutine receives from the channel.   *)
(***************************************************************************)
SetSendInterval(t, mac, interval) ==
    /\ thread[t].pc = "idle"
    /\ ctl < MaxCtl
    /\ ctl' = ctl + 1
    /\ thread' = [thread EXCEPT ![t] =
           [IdleFrame EXCEPT !.pc = "send_set", !.op = "SetSendInterval", !.mac = mac,
                             !.msg = [duration |-> interval,
                                      timerType |-> TimerSendInterval, mac |-> mac],
                             !.want = interval]]
    /\ UNCHANGED <<currentSendInterval, sendTicker, canSend, rwMutex, initialModel,
                   models, tickers, owner, ticked, processed>>
    /\ UNCHANGED negotiation

\* if mac != "" { h.resetTimer <- mac }
ResetCanSend(t, mac) ==
    /\ thread[t].pc = "idle"
    /\ ctl < MaxCtl
    /\ ctl' = IF mac # EmptyString THEN ctl + 1 ELSE ctl
    /\ thread' = [thread EXCEPT ![t] =
           IF mac # EmptyString
           THEN [IdleFrame EXCEPT !.pc = "send_reset", !.op = "ResetCanSend", !.mac = mac]
           ELSE IdleFrame]
    /\ UNCHANGED <<currentSendInterval, sendTicker, canSend, rwMutex, initialModel,
                   models, tickers, owner, ticked, processed>>
    /\ UNCHANGED negotiation

(***************************************************************************)
(* HandleReceiveModel(c, msg)                                              *)
(***************************************************************************)
\* ten minutes in place of ten seconds
ModelTimer_Minutes(mac) ==
    [duration |-> Minute * 10, timerType |-> TimerSendInterval, mac |-> mac]

\* the Timer a model message asks for
ModelTimer(mac) ==
    [duration |-> Second * 10, timerType |-> TimerSendInterval, mac |-> mac]

\* mac := parseTopicMac(msg.Topic())
HandleReceiveModel(t, topic) ==
    /\ thread[t].pc = "idle"
    /\ ctl < MaxCtl
    /\ ctl' = ctl + 1
    /\ thread' = [thread EXCEPT ![t] =
           [IdleFrame EXCEPT !.pc = "hrm_save", !.op = "HandleReceiveModel",
                             !.mac = parseTopicMac(topic)]]
    /\ UNCHANGED <<currentSendInterval, sendTicker, canSend, rwMutex, initialModel,
                   models, tickers, owner, ticked, processed>>
    /\ UNCHANGED negotiation

\* h.saveModel(payload, mac), whose WriteFile may fail; h.initialModel = false;
\* then the send on h.setTimer
HrmSave(t, writeOk) ==
    LET mac == thread[t].mac IN
    /\ thread[t].pc = "hrm_save"
    /\ models' = IF writeOk THEN models \cup {mac} ELSE models
    /\ initialModel' = FALSE
    /\ thread' = [thread EXCEPT ![t].pc = "send_set", ![t].msg = ModelTimer(mac),
                                ![t].want = 10 * Second]
    /\ UNCHANGED <<currentSendInterval, sendTicker, canSend, rwMutex, tickers, owner,
                   ticked, processed, ctl>>
    /\ UNCHANGED negotiation

(***************************************************************************)
(* HandleReceiveInterval(c, msg)                                           *)
(***************************************************************************)
\* a test that forgets the zero interval
InvalidInterval_MacOnly(sendInterval, mac) == mac = EmptyString

\* the test that discards a message
InvalidInterval(sendInterval, mac) == sendInterval = 0 \/ mac = EmptyString

\* the Timer an interval message asks for
IntervalTimer(sendInterval, mac) ==
    [duration |-> Mul(Minute, sendInterval), timerType |-> TimerSendInterval,
     mac |-> mac]

\* parseTopicMac and json.Unmarshal; a failed Unmarshal is logged and the
\* handler goes on
HandleReceiveInterval(t, topic, body) ==
    /\ thread[t].pc = "idle"
    /\ ctl < MaxCtl
    /\ ctl' = ctl + 1
    /\ thread' = [thread EXCEPT ![t] =
           [IdleFrame EXCEPT !.pc = "hri_check", !.op = "HandleReceiveInterval",
                             !.mac = parseTopicMac(topic),
                             !.err = Unmarshal(body).err,
                             !.SendInterval = Unmarshal(body).SendInterval]]
    /\ UNCHANGED <<currentSendInterval, sendTicker, canSend, rwMutex, initialModel,
                   models, tickers, owner, ticked, processed>>
    /\ UNCHANGED negotiation

\* if payload.SendInterval == 0 || mac == "" { return }, else the send on h.setTimer
HriCheck(t) ==
    LET mac == thread[t].mac
        n == thread[t].SendInterval
    IN
    /\ thread[t].pc = "hri_check"
    /\ thread' = [thread EXCEPT ![t] =
           IF InvalidInterval(n, mac)
           THEN [@ EXCEPT !.pc = "ret"]
           ELSE [@ EXCEPT !.pc = "send_set", !.msg = IntervalTimer(n, mac),
                          !.want = n * Minute]]
    /\ UNCHANGED <<currentSendInterval, sendTicker, canSend, rwMutex, initialModel,
                   models, tickers, owner, ticked, processed, ctl>>
    /\ UNCHANGED negotiation

(***************************************************************************)
(* sendTimer(c): the goroutine that owns the registry.  Its pc is "select" *)
(* while it waits on the two channels.  A panic inside it runs its         *)
(* deferred function, which calls h.rwMutex.Lock(); every panic below is   *)
(* raised between Lock and Unlock, so that Lock never returns and the      *)
(* goroutine stays at "panic", holding the mutex.                          *)
(***************************************************************************)
\* case newTime := <-h.setTimer
RecvSetTimer(t) ==
    /\ owner.pc = "select"
    /\ thread[t].pc = "send_set"
    /\ owner' = [owner EXCEPT
           !.pc = IF thread[t].msg.timerType = TimerSendInterval
                  THEN "set_lock" ELSE "select",
           !.newTime = thread[t].msg, !.mac = thread[t].msg.mac,
           !.want = thread[t].want]
    /\ thread' = [thread EXCEPT ![t] = IdleFrame]
    /\ UNCHANGED <<currentSendInterval, sendTicker, canSend, rwMutex, initialModel,
                   models, tickers, ticked, processed, ctl>>
    /\ UNCHANGED negotiation

\* a TimerSet that replaces the ticker without stopping it
SetStop_KeepsOld ==
    /\ owner.pc = "set_lock"
    /\ CanLock
    /\ rwMutex' = Locked(TimerOwner)
    /\ owner' = [owner EXCEPT !.pc = "set_interval"]
    /\ UNCHANGED <<currentSendInterval, sendTicker, canSend, initialModel, models,
                   tickers, thread, ticked, processed, ctl>>
    /\ UNCHANGED negotiation

\* h.rwMutex.Lock(); if h.sendTicker[mac] != nil { h.sendTicker[mac].Stop() }
SetStop ==
    /\ owner.pc = "set_lock"
    /\ CanLock
    /\ rwMutex' = Locked(TimerOwner)
    /\ tickers' = IF owner.mac \in DOMAIN sendTicker
                  THEN Stop(sendTicker[owner.mac]) ELSE tickers
    /\ owner' = [owner EXCEPT !.pc = "set_interval"]
    /\ UNCHANGED <<currentSendInterval, sendTicker, canSend, initialModel, models,
                   thread, ticked, processed, ctl>>
    /\ UNCHANGED negotiation

\* a TimerSet that keeps the interval a device already has
SetInterval_KeepsFirst ==
    /\ owner.pc = "set_interval"
    /\ currentSendInterval' =
           IF owner.mac \in DOMAIN currentSendInterval THEN currentSendInterval
           ELSE MapPut(currentSendInterval, owner.mac, owner.newTime.duration)
    /\ owner' = [owner EXCEPT !.pc = "set_ticker"]
    /\ UNCHANGED <<sendTicker, canSend, rwMutex, initialModel, models, tickers,
                   thread, ticked, processed, ctl>>
    /\ UNCHANGED negotiation

\* h.currentSendInterval[mac] = newTime.duration
SetInterval ==
    /\ owner.pc = "set_interval"
    /\ currentSendInterval' = MapPut(currentSendInterval, owner.mac, owner.newTime.duration)
    /\ owner' = [owner EXCEPT !.pc = "set_ticker"]
    /\ UNCHANGED <<sendTicker, canSend, rwMutex, initialModel, models, tickers,
                   thread, ticked, processed, ctl>>
    /\ UNCHANGED negotiation

\* a TimerSet that makes no ticker for a duration NewTicker would refuse
SetTicker_SkipBadDuration ==
    /\ owner.pc = "set_ticker"
    /\ IF owner.newTime.duration <= 0
       THEN UNCHANGED <<tickers, sendTicker, ticked>>
       ELSE /\ tickers' = Append(tickers, NewTicker(owner.newTime.duration))
            /\ sendTicker' = MapPut(sendTicker, owner.mac, Len(tickers) + 1)
            /\ ticked' = MapPut(ticked, owner.mac, FALSE)
    /\ owner' = [owner EXCEPT !.pc = "set_cansend"]
    /\ UNCHANGED <<currentSendInterval, canSend, rwMutex, initialModel, models,
                   thread, processed, ctl>>
    /\ UNCHANGED negotiation

\* h.sendTicker[mac] = time.NewTicker(newTime.duration)
SetTicker ==
    /\ owner.pc = "set_ticker"
    /\ IF owner.newTime.duration <= 0
       THEN /\ owner' = [owner EXCEPT !.pc = "panic"]
            /\ UNCHANGED <<tickers, sendTicker, ticked>>
       ELSE /\ tickers' = Append(tickers, NewTicker(owner.newTime.duration))
            /\ sendTicker' = MapPut(sendTicker, owner.mac, Len(tickers) + 1)
            /\ ticked' = MapPut(ticked, owner.mac, FALSE)
            /\ owner' = [owner EXCEPT !.pc = "set_cansend"]
    /\ UNCHANGED <<currentSendInterval, canSend, rwMutex, initialModel, models,
                   thread, processed, ctl>>
    /\ UNCHANGED negotiation

\* a TimerSet that shuts the gate of every device
SetCanSend_ClosesAll ==
    /\ owner.pc = "set_cansend"
    /\ canSend' = [m \in (DOMAIN canSend) \cup {owner.mac} |-> FALSE]
    /\ rwMutex' = Unlocked
    /\ processed' = MapPut(processed, owner.mac, owner.want)
    /\ owner' = [owner EXCEPT !.pc = "select"]
    /\ UNCHANGED <<currentSendInterval, sendTicker, initialModel, models, tickers,
                   thread, ticked, ctl>>
    /\ UNCHANGED negotiation

\* h.canSend[mac] = false; h.rwMutex.Unlock()
SetCanSend ==
    /\ owner.pc = "set_cansend"
    /\ canSend' = MapPut(canSend, owner.mac, FALSE)
    /\ rwMutex' = Unlocked
    /\ processed' = MapPut(processed, owner.mac, owner.want)
    /\ owner' = [owner EXCEPT !.pc = "select"]
    /\ UNCHANGED <<currentSendInterval, sendTicker, initialModel, models, tickers,
                   thread, ticked, ctl>>
    /\ UNCHANGED negotiation

\* case mac := <-h.resetTimer
RecvResetTimer(t) ==
    /\ owner.pc = "select"
    /\ thread[t].pc = "send_reset"
    /\ owner' = [owner EXCEPT !.pc = "reset_lock", !.newTime = NoTimer,
                              !.mac = thread[t].mac, !.want = 0]
    /\ thread' = [thread EXCEPT ![t] = IdleFrame]
    /\ UNCHANGED <<currentSendInterval, sendTicker, canSend, rwMutex, initialModel,
                   models, tickers, ticked, processed, ctl>>
    /\ UNCHANGED negotiation

\* a TimerReset that leaves the flag as it finds it
ResetCanSendFlag_KeepsFlag ==
    /\ owner.pc = "reset_lock"
    /\ CanLock
    /\ rwMutex' = Locked(TimerOwner)
    /\ owner' = [owner EXCEPT !.pc = "reset_stop"]
    /\ UNCHANGED <<currentSendInterval, sendTicker, canSend, initialModel, models,
                   tickers, thread, ticked, processed, ctl>>
    /\ UNCHANGED negotiation

\* h.rwMutex.Lock(); h.canSend[mac] = false
ResetCanSendFlag ==
    /\ owner.pc = "reset_lock"
    /\ CanLock
    /\ rwMutex' = Locked(TimerOwner)
    /\ canSend' = MapPut(canSend, owner.mac, FALSE)
    /\ owner' = [owner EXCEPT !.pc = "reset_stop"]
    /\ UNCHANGED <<currentSendInterval, sendTicker, initialModel, models, tickers,
                   thread, ticked, processed, ctl>>
    /\ UNCHANGED negotiation

\* h.sendTicker[mac].Stop(): a nil pointer dereference when mac has no ticker
ResetStop ==
    /\ owner.pc = "reset_stop"
    /\ IF owner.mac \in DOMAIN sendTicker
       THEN /\ tickers' = Stop(sendTicker[owner.mac])
            /\ owner' = [owner EXCEPT !.pc = "reset_ticker"]
       ELSE /\ owner' = [owner EXCEPT !.pc = "panic"]
            /\ UNCHANGED tickers
    /\ UNCHANGED <<currentSendInterval, sendTicker, canSend, rwMutex, initialModel,
                   models, thread, ticked, processed, ctl>>
    /\ UNCHANGED negotiation

\* h.sendTicker[mac] = time.NewTicker(h.currentSendInterval[mac]); h.rwMutex.Unlock()
ResetTicker ==
    LET d == MapGet(currentSendInterval, owner.mac, 0) IN
    /\ owner.pc = "reset_ticker"
    /\ IF d <= 0
       THEN /\ owner' = [owner EXCEPT !.pc = "panic"]
            /\ UNCHANGED <<tickers, sendTicker, ticked, rwMutex>>
       ELSE /\ tickers' = Append(tickers, NewTicker(d))
            /\ sendTicker' = MapPut(sendTicker, owner.mac, Len(tickers) + 1)
            /\ ticked' = MapPut(ticked, owner.mac, FALSE)
            /\ rwMutex' = Unlocked
            /\ owner' = [owner EXCEPT !.pc = "select"]
    /\ UNCHANGED <<currentSendInterval, canSend, initialModel, models, thread,
                   processed, ctl>>
    /\ UNCHANGED negotiation

(***************************************************************************)
(* The outbound requests.  c.Publish is the messaging client's: it takes   *)
(* the message and its token carries an error or none.                     *)
(***************************************************************************)
\* the state the requests and the liveness handler do not touch
gate == <<currentSendInterval, sendTicker, canSend, models, tickers, owner,
          ticked, processed, ctl>>

\* fmt.Sprintf("%s/global/%s/<action>", hadesPrefix, mac)
RequestTopic(mac, action) == <<Word_hades, Word_global, mac>> \o action

\* RequestModelPayload{MAC: mac, LastModelUpdate: h.lastModelUpdate, Initial: h.initialModel}
RequestModelPayload(mac) ==
    [MAC |-> mac, LastModelUpdate |-> lastModelUpdate, Initial |-> initialModel]

\* json.Marshal of a RequestModelPayload: the members under their json tags.
\* It fails for no value the three fields can hold.
Marshal(payload) ==
    << <<"mac", payload.MAC>>,
       <<"last_model_update", payload.LastModelUpdate>>,
       <<"initial", payload.Initial>> >>

\* the frame of a request that has built its topic and payload
RequestFrame(op, mac, action) ==
    [IdleFrame EXCEPT !.pc = "publish", !.op = op, !.mac = mac,
                      !.topic = RequestTopic(mac, action),
                      !.payload = Marshal(RequestModelPayload(mac))]

RequestNewModel(t, mac) ==
    /\ thread[t].pc = "idle"
    /\ thread' = [thread EXCEPT ![t] =
           RequestFrame("RequestNewModel", mac, <<Word_model, Word_request>>)]
    /\ UNCHANGED <<gate, rwMutex, initialModel, negotiation>>

RequestNewInterval(t, mac) ==
    /\ thread[t].pc = "idle"
    /\ thread' = [thread EXCEPT ![t] =
           RequestFrame("RequestNewInterval", mac, <<Word_interval, Word_request>>)]
    /\ UNCHANGED <<gate, rwMutex, initialModel, negotiation>>

\* an error that is logged and not returned
PublishError_Swallowed(pubOk) == FALSE

\* if token.Error() != nil { return token.Error() }; return nil
PublishError(pubOk) == ~pubOk

\* token := c.Publish(requestTopic, 1, false, resp) and the return
Publish(t, pubOk) ==
    /\ thread[t].pc = "publish"
    /\ thread' = [thread EXCEPT
           ![t].pc = "ret",
           ![t].sent = Append(@, [topic |-> thread[t].topic,
                                  payload |-> thread[t].payload, ok |-> pubOk]),
           ![t].err = PublishError(pubOk)]
    /\ UNCHANGED <<gate, rwMutex, initialModel, negotiation>>

(***************************************************************************)
(* PingHades(c, mac), HandlePingResponse(c, msg), IsConnectedHades()       *)
(***************************************************************************)
PingHades(t, mac) ==
    /\ thread[t].pc = "idle"
    /\ thread' = [thread EXCEPT ![t] =
           [IdleFrame EXCEPT !.pc = "ping_publish", !.op = "PingHades", !.mac = mac,
                             !.topic = RequestTopic(mac, <<Word_ping>>),
                             !.payload = <<>>]]
    /\ UNCHANGED <<gate, rwMutex, initialModel, negotiation>>

\* a ping that reports the outcome of its publish
PingResult_Outcome(pubOk) == pubOk

\* return false after the warning, return false after a publish without error
PingResult(pubOk) == FALSE

\* token := c.Publish(pingTopic, 1, false, nil) and the return
PhPublish(t, pubOk) ==
    /\ thread[t].pc = "ping_publish"
    /\ thread' = [thread EXCEPT
           ![t].pc = "ret",
           ![t].sent = Append(@, [topic |-> thread[t].topic,
                                  payload |-> thread[t].payload, ok |-> pubOk]),
           ![t].ok = PingResult(pubOk)]
    /\ UNCHANGED <<gate, rwMutex, initialModel, negotiation>>

\* h.rwMutex.Lock()
HandlePingResponse(t) ==
    /\ thread[t].pc = "idle"
    /\ CanLock
    /\ rwMutex' = Locked(t)
    /\ thread' = [thread EXCEPT ![t] =
           [IdleFrame EXCEPT !.pc = "hpr_set", !.op = "HandlePingResponse"]]
    /\ UNCHANGED <<gate, initialModel, negotiation>>

\* a handler that records the time and not the flag
HprSet_TimeOnly(t, now) ==
    /\ thread[t].pc = "hpr_set"
    /\ lastCheck' = now
    /\ rwMutex' = Unlocked
    /\ thread' = [thread EXCEPT ![t].pc = "ret"]
    /\ UNCHANGED <<gate, initialModel, lastModelUpdate, counter, serverAlive, handlers>>

\* h.lastCheck = time.Now(); h.serverAlive = true; and the deferred Unlock
HprSet(t, now) ==
    /\ thread[t].pc = "hpr_set"
    /\ lastCheck' = now
    /\ serverAlive' = TRUE
    /\ rwMutex' = Unlocked
    /\ thread' = [thread EXCEPT ![t].pc = "ret"]
    /\ UNCHANGED <<gate, initialModel, lastModelUpdate, counter, handlers>>

\* h.rwMutex.RLock()
IsConnectedHades(t) ==
    /\ thread[t].pc = "idle"
    /\ rwMutex.writer = Nobody
    /\ rwMutex' = [rwMutex EXCEPT !.readers = @ \cup {t}]
    /\ thread' = [thread EXCEPT ![t] =
           [IdleFrame EXCEPT !.pc = "ich_read", !.op = "IsConnectedHades"]]
    /\ UNCHANGED <<gate, initialModel, negotiation>>

\* return h.serverAlive; and the deferred RUnlock
IchReturn(t) ==
    /\ thread[t].pc = "ich_read"
    /\ rwMutex' = [rwMutex EXCEPT !.readers = @ \ {t}]
    /\ thread' = [thread EXCEPT ![t].pc = "ret", ![t].ok = serverAlive]
    /\ UNCHANGED <<gate, initialModel, negotiation>>

(***************************************************************************)
(* checkNeedNewInterval(c, mac): one more interval without an update; at   *)
(* the threshold the counter starts again and a new interval is requested. *)
(***************************************************************************)
IntervalThreshold == 5

\* a test that lets the counter pass the threshold
NeedNewInterval_Late(n) == n > IntervalThreshold

NeedNewInterval(n) == n >= IntervalThreshold

checkNeedNewInterval(t, mac) ==
    LET n == MapGet(counter, mac, 0) + 1 IN
    /\ thread[t].pc = "idle"
    /\ IF NeedNewInterval(n)
       THEN /\ counter' = MapPut(counter, mac, 0)
            /\ thread' = [thread EXCEPT ![t] =
                   RequestFrame("checkNeedNewInterval", mac, <<Word_interval, Word_request>>)]
       ELSE /\ counter' = MapPut(counter, mac, n)
            /\ thread' = [thread EXCEPT ![t] =
                   [IdleFrame EXCEPT !.pc = "ret", !.op = "checkNeedNewInterval",
                                     !.mac = mac]]
    /\ UNCHANGED <<gate, rwMutex, initialModel, lastModelUpdate, serverAlive, lastCheck,
                   handlers>>

(***************************************************************************)
(* hermes.GetHandlers() and ClientHermesReader.GetHandlers().  Both return *)
(* the slice h.handlers itself; list holds the topics as they are when the *)
(* call returns.                                                           *)
(***************************************************************************)
\* calls of hermes.GetHandlers in one run
MaxCalls == 4

\* fmt.Sprintf("%s/%s", hermesPrefix, entry.Topic)
Prefixed(topic) == <<Word_hermes>> \o topic

\* for i, entry := range h.handlers
GetHandlers(t) ==
    /\ thread[t].pc = "idle"
    /\ Len(handlers[1]) < Len(HandlerTopics[1]) + MaxCalls
    /\ thread' = [thread EXCEPT ![t] =
           [IdleFrame EXCEPT !.pc = "gh_loop", !.op = "GetHandlers", !.i = 1]]
    /\ UNCHANGED <<gate, rwMutex, initialModel, negotiation>>

\* h.handlers[i].Topic = fmt.Sprintf(...); after the last entry, return h.handlers
GhLoop(t) ==
    LET i == thread[t].i IN
    /\ thread[t].pc = "gh_loop"
    /\ IF i <= Len(handlers)
       THEN /\ handlers' = [handlers EXCEPT ![i] = Prefixed(@)]
            /\ thread' = [thread EXCEPT ![t].i = i + 1]
       ELSE /\ thread' = [thread EXCEPT ![t].pc = "ret", ![t].list = handlers]
            /\ UNCHANGED handlers
    /\ UNCHANGED <<gate, rwMutex, initialModel, lastModelUpdate, serverAlive, lastCheck,
                   counter>>

\* h := r.hermes.handlers; return h
ReaderGetHandlers(t) ==
    /\ thread[t].pc = "idle"
    /\ thread' = [thread EXCEPT ![t] =
           [IdleFrame EXCEPT !.pc = "ret", !.op = "ClientHermesReader.GetHandlers",
                             !.list = handlers]]
    /\ UNCHANGED <<gate, rwMutex, initialModel, negotiation>>

(***************************************************************************)
(* The program.                                                            *)
(***************************************************************************)
Next ==
    \/ \E t \in Threads, mac \in Macs : GetCanSend(t, mac)
    \/ \E t \in Threads : GcsReturn(t)
    \/ \E t \in Threads, mac \in Macs : GetCurrentSendInterval(t, mac)
    \/ \E t \in Threads : GsiReturn(t)
    \/ \E t \in Threads : Return(t)
    \/ \E t \in Threads, d \in SetInputs : SetSendInterval(t, Mac1, d)
    \/ \E t \in Threads, mac \in {Mac1, EmptyString} : ResetCanSend(t, mac)
    \/ \E t \in Threads, topic \in ModelTopics : HandleReceiveModel(t, topic)
    \/ \E t \in Threads, writeOk \in BOOLEAN : HrmSave(t, writeOk)
    \/ \E t \in Threads, m \in IntervalMessages : HandleReceiveInterval(t, m.topic, m.body)
    \/ \E t \in Threads : HriCheck(t)
    \/ \E t \in Threads : RecvSetTimer(t)
    \/ SetStop
    \/ SetInterval
    \/ SetTicker
    \/ SetCanSend
    \/ \E t \in Threads : RecvResetTimer(t)
    \/ ResetCanSendFlag
    \/ ResetStop
    \/ ResetTicker
    \/ \E k \in 1..Len(tickers) : Tick(k)

Spec == Init /\ [][Next]_vars

(***************************************************************************)
(* The coordinator with its negotiation and liveness parts.  The client    *)
(* runs the handlers of inbound messages one after the other on its router *)
(* goroutine; the application calls the requests and the queries.  The     *)
(* exchange is short against the periods of the tickers: none fires.       *)
(***************************************************************************)
Router == "t1"
Application == "t2"

\* the readings of time.Now()
Times == 1..MaxClock

NextNegotiation ==
    \/ \E topic \in ModelTopics : HandleReceiveModel(Router, topic)
    \/ \E writeOk \in BOOLEAN : HrmSave(Router, writeOk)
    \/ \E m \in IntervalMessages : HandleReceiveInterval(Router, m.topic, m.body)
    \/ HriCheck(Router)
    \/ HandlePingResponse(Router)
    \/ \E now \in Times : HprSet(Router, now)
    \/ RequestNewModel(Application, Mac1)
    \/ RequestNewInterval(Application, Mac1)
    \/ \E pubOk \in BOOLEAN : Publish(Application, pubOk)
    \/ PingHades(Application, Mac1)
    \/ \E pubOk \in BOOLEAN : PhPublish(Application, pubOk)
    \/ IsConnectedHades(Application)
    \/ IchReturn(Application)
    \/ \E d \in SetInputs : SetSendInterval(Application, Mac1, d)
    \/ ResetCanSend(Application, Mac1)
    \/ GetCanSend(Application, Mac1)
    \/ GcsReturn(Application)
    \/ \E t \in Threads : Return(t)
    \/ \E t \in Threads : RecvSetTimer(t)
    \/ SetStop
    \/ SetInterval
    \/ SetTicker
    \/ SetCanSend
    \/ \E t \in Threads : RecvResetTimer(t)
    \/ ResetCanSendFlag
    \/ ResetStop
    \/ ResetTicker

SpecNegotiation == Init /\ [][NextNegotiation]_vars

(***************************************************************************)
(* The periodic nudge alone: goroutines that call checkNeedNewInterval.    *)
(***************************************************************************)
NextNudge ==
    \/ \E t \in Threads, mac \in Macs : checkNeedNewInterval(t, mac)
    \/ \E t \in Threads, pubOk \in BOOLEAN : Publish(t, pubOk)
    \/ \E t \in Threads : Return(t)

SpecNudge == Init /\ [][NextNudge]_vars

(***************************************************************************)
(* The topic parser alone: a goroutine that calls parseTopicMac on the     *)
(* topics of ParseInputs.                                                  *)
(***************************************************************************)
CallParseTopicMac(t, topic) ==
    /\ thread[t].pc = "idle"
    /\ thread' = [thread EXCEPT ![t] =
           [IdleFrame EXCEPT !.pc = "parse", !.op = "parseTopicMac", !.topic = topic]]
    /\ UNCHANGED <<gate, rwMutex, initialModel, negotiation>>

ParseTopicMacReturn(t) ==
    /\ thread[t].pc = "parse"
    /\ thread' = [thread EXCEPT ![t].pc = "ret",
                                ![t].mac = parseTopicMac(thread[t].topic)]
    /\ UNCHANGED <<gate, rwMutex, initialModel, negotiation>>

NextParse ==
    \/ \E topic \in ParseInputs : CallParseTopicMac(Application, topic)
    \/ ParseTopicMacReturn(Application)
    \/ Return(Application)

SpecParse == Init /\ [][NextParse]_vars

(***************************************************************************)
(* The order of control messages: the application sends one TimerSet after *)
(* the other for Mac1, the n-th control operation of the run asking for n  *)
(* seconds, so that the place of a TimerSet in the order of sends can be   *)
(* read from its duration; the router goroutine sends TimerResets and asks *)
(* for the interval.                                                       *)
(***************************************************************************)
NextOrder ==
    \/ SetSendInterval(Application, Mac1, (ctl + 1) * Second)
    \/ ResetCanSend(Router, Mac1)
    \/ GetCurrentSendInterval(Router, Mac1)
    \/ GsiReturn(Router)
    \/ Return(Router)
    \/ RecvSetTimer(Application)
    \/ SetStop
    \/ SetInterval
    \/ SetTicker
    \/ SetCanSend
    \/ RecvResetTimer(Router)
    \/ ResetCanSendFlag
    \/ ResetStop
    \/ ResetTicker
    \/ \E k \in 1..Len(tickers) : Tick(k)

SpecOrder == Init /\ [][NextOrder]_vars

(***************************************************************************)
(* The send gate under fair scheduling.  The publisher goroutine asks      *)
(* GetCanSend for Mac1 again and again; the other goroutine makes the      *)
(* calls that send control messages.  A goroutine that can take a step     *)
(* takes it; a goroutine that waits for the mutex gets it (sync.Mutex      *)
(* hands the lock to a waiter after a bounded wait), a running ticker      *)
(* fires, and a send is taken when sendTimer selects.  Nothing makes the   *)
(* sender begin a call.                                                    *)
(***************************************************************************)
Publisher == "t1"
Sender == "t2"

PublisherStep ==
    \/ GetCanSend(Publisher, Mac1)
    \/ GcsReturn(Publisher)
    \/ Return(Publisher)

SenderCall ==
    \/ \E d \in SetInputs : SetSendInterval(Sender, Mac1, d)
    \/ \E mac \in Macs : ResetCanSend(Sender, mac)
    \/ \E topic \in ModelTopics : HandleReceiveModel(Sender, topic)
    \/ \E m \in IntervalMessages : HandleReceiveInterval(Sender, m.topic, m.body)

SenderStep ==
    \/ \E writeOk \in BOOLEAN : HrmSave(Sender, writeOk)
    \/ HriCheck(Sender)
    \/ Return(Sender)

TimerOwnerLock ==
    \/ SetStop
    \/ ResetCanSendFlag

TimerOwnerStep ==
    \/ RecvSetTimer(Sender)
    \/ RecvResetTimer(Sender)
    \/ SetInterval
    \/ SetTicker
    \/ SetCanSend
    \/ ResetStop
    \/ ResetTicker

TickerFires == \E k \in 1..Len(tickers) : Tick(k)

NextLive ==
    \/ PublisherStep
    \/ SenderCall
    \/ SenderStep
    \/ TimerOwnerLock
    \/ TimerOwnerStep
    \/ TickerFires

SpecLive ==
    /\ Init
    /\ [][NextLive]_vars
    /\ SF_vars(GetCanSend(Publisher, Mac1))
    /\ WF_vars(GcsReturn(Publisher))
    /\ WF_vars(Return(Publisher))
    /\ WF_vars(SenderStep)
    /\ SF_vars(TimerOwnerLock)
    /\ WF_vars(TimerOwnerStep)
    /\ WF_vars(TickerFires)

(***************************************************************************)
(* The handler list: the application asks for the handlers to subscribe    *)
(* them, once per connection, and reads the stored list; the router        *)
(* goroutine reads the stored list through the reader.                     *)
(***************************************************************************)
NextHandlers ==
    \/ GetHandlers(Application)
    \/ GhLoop(Application)
    \/ \E t \in Threads : ReaderGetHandlers(t)
    \/ \E t \in Threads : Return(t)

SpecHandlers == Init /\ [][NextHandlers]_vars

(***************************************************************************)
(* Properties.                                                             *)
(***************************************************************************)
Returned(t, op) == thread[t].pc = "ret" /\ thread[t].op = op

\* C1: once a TimerSet for a device has been processed, GetCanSend for it
\* returns true exactly when the device's ticker has fired since it was armed
\* or since the previous GetCanSend for it: false until the first tick, true
\* on the first call after a tick, false again until the next tick.
C1_GateFollowsTicks ==
    \A t \in Threads :
        (Returned(t, "GetCanSend") /\ thread[t].armed)
            => thread[t].ok = thread[t].open

\* a GetCanSend for an armed device has returned true
C1_Witness ==
    \E t \in Threads :
        /\ Returned(t, "GetCanSend") /\ thread[t].armed
        /\ thread[t].ok /\ thread[t].mac = Mac1

\* C2: for a device for which no TimerSet has been processed, GetCanSend
\* returns true and GetCurrentSendInterval returns one second, whatever has
\* been done for other devices.
C2_UnarmedDefaults ==
    \A t \in Threads :
        (thread[t].pc = "ret" /\ ~thread[t].armed)
            => /\ thread[t].op = "GetCanSend" => thread[t].ok
               /\ thread[t].op = "GetCurrentSendInterval" => thread[t].dur = 1 * Second

\* GetCanSend for Mac2 is about to return true while Mac1 is armed and its
\* gate is shut
C2_Witness ==
    /\ Mac1 \in DOMAIN processed
    /\ Mac1 \in DOMAIN canSend /\ ~canSend[Mac1]
    /\ \E t \in Threads : thread[t].pc = "gcs_true" /\ thread[t].mac = Mac2

\* C3: a goroutine inside GetCanSend holds the mutex alone, and a GetCanSend
\* for a device with a ticker returns true only if it took a tick no other
\* call was given: one tick opens the gate for at most one caller.
C3_OneGrantPerTick ==
    /\ \A t \in Threads :
           thread[t].pc \in {"gcs_true", "gcs_return"} => rwMutex.writer = t
    /\ \A t \in Threads :
           (Returned(t, "GetCanSend") /\ thread[t].armed /\ thread[t].ok)
               => thread[t].open

\* two callers asked about the same device after one tick: one was let
\* through, the other was not
C3_Witness ==
    /\ Returned("t1", "GetCanSend") /\ Returned("t2", "GetCanSend")
    /\ thread["t1"].mac = Mac1 /\ thread["t2"].mac = Mac1
    /\ thread["t1"].armed /\ thread["t2"].armed
    /\ thread["t1"].ok /\ ~thread["t2"].ok
    /\ ~tickers[sendTicker[Mac1]].pending

\* C4: processing a TimerReset for a device without a ticker changes nothing
\* in the registry and leaves the sendTimer goroutine running.
C4_ResetWithoutTickerIsNoOp ==
    [][(owner.pc \in {"reset_lock", "reset_stop"} /\ owner.mac \notin DOMAIN sendTicker)
          => (registry' = registry /\ owner'.pc # "panic")]_vars

\* C5: a model message for a device leads to a send of
\* Timer{10 seconds, TimerSendInterval, mac} whether or not the model file was
\* written, and when the sendTimer goroutine has processed that Timer the
\* device's interval is 10 seconds and its gate is shut.
C5_ModelRearmsTenSeconds ==
    [][/\ \A t \in Threads :
              (thread[t].pc = "hrm_save" /\ thread[t].mac # EmptyString
                 /\ thread'[t] # thread[t])
                  => /\ thread'[t].pc = "send_set"
                     /\ thread'[t].msg = [duration |-> 10 * Second,
                                          timerType |-> TimerSendInterval,
                                          mac |-> thread[t].mac]
       /\ (owner.pc = "set_cansend" /\ owner'.pc = "select"
             /\ owner.newTime.duration = 10 * Second)
              => /\ SendIntervalResult(owner.mac)' = 10 * Second
                 /\ canSend'[owner.mac] = FALSE]_vars

\* a model message whose file was not written has re-armed a device that had
\* a ticker before
C5_Witness ==
    /\ owner.pc = "select"
    /\ Mac1 \in DOMAIN currentSendInterval /\ currentSendInterval[Mac1] = 10 * Second
    /\ Len(tickers) = 2 /\ tickers[1].period = 5 * Second
    /\ Mac1 \notin models
    /\ ~initialModel

\* C6: an interval message with send_interval 0, or on a topic without a
\* device id, is dropped: the handler returns without a send and without a
\* change to the registry.
C6_InvalidIntervalDropped ==
    [][\A t \in Threads :
          /\ (thread[t].pc = "idle" /\ thread'[t].pc = "hri_check")
                 => registry' = registry
          /\ (thread[t].pc = "hri_check" /\ thread'[t] # thread[t]
                 /\ (thread[t].SendInterval = 0 \/ thread[t].mac = EmptyString))
                 => (thread'[t].pc = "ret" /\ registry' = registry /\ owner' = owner)]_vars

\* the handler has returned from a message with send_interval 0 for a device
\* that has a ticker
C6_Witness ==
    \E t \in Threads :
        /\ Returned(t, "HandleReceiveInterval")
        /\ thread[t].SendInterval = 0 /\ ~thread[t].err
        /\ thread[t].mac = Mac1 /\ Mac1 \in DOMAIN sendTicker

\* C7: after the TimerSet of an interval message carrying n > 0 (or of
\* SetSendInterval(id, d)) has been processed, GetCurrentSendInterval returns
\* n minutes (or d).
C7_IntervalIsWhatWasAsked ==
    \A t \in Threads :
        (Returned(t, "GetCurrentSendInterval") /\ thread[t].armed)
            => thread[t].dur = thread[t].want

\* C8: a model message on a topic without a device id is dropped: nothing is
\* written, initialModel keeps its value and nothing is sent.
C8_ModelWithoutMacDropped ==
    [][\A t \in Threads :
          (thread[t].pc = "hrm_save" /\ thread[t].mac = EmptyString
             /\ thread'[t] # thread[t])
              => /\ thread'[t].pc \in {"ret", "idle"}
                 /\ models' = models
                 /\ initialModel' = initialModel]_vars

\* C9: an interval message whose body fails to parse is dropped: the handler
\* returns without a send.
C9_UnparsedIntervalDropped ==
    [][\A t \in Threads :
          (thread[t].pc = "hri_check" /\ thread[t].err /\ thread'[t] # thread[t])
              => (thread'[t].pc = "ret" /\ registry' = registry)]_vars

\* C10: the sendTimer goroutine never fails: in every reachable state it is
\* waiting for, or working on, a control message.
C10_TimerOwnerNeverFails == owner.pc # "panic"

\* C11: once the sendTimer goroutine has stopped serving, every ticker in the
\* registry has been stopped.
C11_ShutdownStopsTickers ==
    owner.pc = "panic"
        => \A m \in DOMAIN sendTicker : tickers[sendTicker[m]].stopped

\* C12: RequestNewModel and RequestNewInterval build their message without a
\* publish, then publish once, to hades/global/<mac>/model/request and
\* hades/global/<mac>/interval/request, and return at once, with an error
\* exactly when that publish failed; none of their steps changes the
\* registry, the tickers, the model files or the scalar state.
C12_RequestsPublishOnce ==
    [][\A t \in Threads :
          LET f == thread[t]
              g == thread'[t]
              action == IF g.op = "RequestNewModel" THEN Word_model ELSE Word_interval
          IN  (g.op \in {"RequestNewModel", "RequestNewInterval"} /\ g # f)
                 => /\ registry' = registry
                    /\ <<tickers, models>>' = <<tickers, models>>
                    /\ <<initialModel, lastModelUpdate, serverAlive, lastCheck>>'
                           = <<initialModel, lastModelUpdate, serverAlive, lastCheck>>
                    /\ counter' = counter
                    /\ IF f.pc = "idle"
                       THEN g.pc = "publish" /\ g.sent = <<>>
                       ELSE /\ f.pc = "publish" /\ g.pc = "ret"
                            /\ Len(g.sent) = 1
                            /\ g.sent[1].topic =
                                   <<Word_hades, Word_global, f.mac, action, Word_request>>
                            /\ g.err <=> ~g.sent[1].ok]_vars

\* RequestNewInterval has returned the error of its failed publish while
\* Mac1 has a ticker
C12_Witness ==
    /\ Returned(Application, "RequestNewInterval")
    /\ thread[Application].err
    /\ Len(thread[Application].sent) = 1 /\ ~thread[Application].sent[1].ok
    /\ Mac1 \in DOMAIN sendTicker

\* C13: initialModel is true at the start, becomes false only when a model
\* message that carries a device id is handled and is never true again; and a
\* request carries the value initialModel has when the request is built.
C13_InitialUntilFirstModel ==
    /\ initialModel = TRUE
    /\ [][ /\ (initialModel' # initialModel)
                 => \E t \in Threads :
                        /\ thread[t].pc = "hrm_save" /\ thread[t].mac # EmptyString
                        /\ thread'[t].pc = "send_set"
           /\ ~initialModel => ~initialModel'
           /\ \A t \in Threads :
                  (thread[t].pc = "idle" /\ thread'[t].pc = "publish")
                      => thread'[t].payload[3] = <<"initial", initialModel>>]_vars

\* C14: a call of checkNeedNewInterval with the counter of the device at 4
\* puts it at 0 and makes one interval request for the device; any other call
\* adds one to the counter and makes no request; the counters of the other
\* devices are left alone and no counter reaches 5.
C14_NudgeAtThreshold ==
    [][\A t \in Threads :
          LET f == thread[t]
              g == thread'[t]
              old == MapGet(counter, g.mac, 0)
              topic == <<Word_hades, Word_global, g.mac, Word_interval, Word_request>>
          IN  /\ (f.pc = "idle" /\ g.op = "checkNeedNewInterval")
                     => /\ IF old = 4
                           THEN /\ counter'[g.mac] = 0
                                /\ g.pc = "publish" /\ g.topic = topic
                           ELSE /\ counter'[g.mac] = old + 1
                                /\ g.pc = "ret"
                        /\ g.sent = <<>>
                        /\ \A m \in DOMAIN counter' \ {g.mac} :
                               m \in DOMAIN counter /\ counter'[m] = counter[m]
              /\ (f.op = "checkNeedNewInterval" /\ f.pc = "publish" /\ g # f)
                     => /\ g.pc = "ret"
                        /\ Len(g.sent) = 1 /\ g.sent[1].topic = topic
                        /\ counter' = counter
              /\ \A m \in DOMAIN counter' : counter'[m] < 5]_vars

\* the fifth call for Mac1 has made its request while Mac2 has been counted
\* four times
C14_Witness ==
    \E t \in Threads :
        /\ Returned(t, "checkNeedNewInterval") /\ thread[t].mac = Mac1
        /\ Len(thread[t].sent) = 1
        /\ Mac1 \in DOMAIN counter /\ counter[Mac1] = 0
        /\ Mac2 \in DOMAIN counter /\ counter[Mac2] = 4

\* C15: parseTopicMac returns the device id when it is a segment of the
\* topic, at any position, and the empty string for a topic whose segments
\* are five groups, seven groups, groups of the wrong length, groups that are
\* not hexadecimal, other text or empty.
C15_ParseFindsMacSegment ==
    \A t \in Threads :
        Returned(t, "parseTopicMac")
            => thread[t].mac =
                   IF \E i \in 1..Len(thread[t].topic) : thread[t].topic[i] = Mac1
                   THEN Mac1 ELSE EmptyString

\* the device id was found behind two segments that look like one
C15_Witness ==
    /\ Returned(Application, "parseTopicMac")
    /\ thread[Application].topic = <<ShortMac, NonHexMac, Mac1>>
    /\ thread[Application].mac = Mac1

\* C16: serverAlive is false and lastCheck unset at the start; they change
\* only in the step of HandlePingResponse that sets them, which makes
\* serverAlive true; and IsConnectedHades returns true exactly when a ping
\* response has been handled.
C16_OnlyPongSetsAlive ==
    /\ ~serverAlive /\ lastCheck = ZeroTime
    /\ [][ /\ (serverAlive' # serverAlive \/ lastCheck' # lastCheck)
                 => \E t \in Threads :
                        /\ thread[t].op = "HandlePingResponse"
                        /\ thread[t].pc = "hpr_set" /\ thread'[t].pc = "ret"
           /\ \A t \in Threads :
                  (thread[t].pc = "hpr_set" /\ thread'[t].pc = "ret")
                      => serverAlive' /\ lastCheck' # ZeroTime
           /\ \A t \in Threads :
                  (thread[t].pc = "ich_read" /\ thread'[t].pc = "ret")
                      => (thread'[t].ok <=> lastCheck # ZeroTime)]_vars

\* IsConnectedHades has returned true; a TimerSet and a TimerReset have been
\* processed and the time of the one ping response is still the one recorded
C16_Witness ==
    /\ Returned(Application, "IsConnectedHades") /\ thread[Application].ok
    /\ serverAlive /\ lastCheck = 1
    /\ owner.pc = "select" /\ Len(tickers) = 2 /\ ctl = 2

\* C17: PingHades makes one publish, of an empty payload to
\* hades/global/<mac>/ping, and returns false whether it failed or not.
C17_PingNeverTrue ==
    \A t \in Threads :
        Returned(t, "PingHades")
            => /\ ~thread[t].ok
               /\ Len(thread[t].sent) = 1
               /\ thread[t].sent[1].topic =
                      <<Word_hades, Word_global, thread[t].mac, Word_ping>>
               /\ thread[t].sent[1].payload = <<>>

\* PingHades has returned false after a publish without error
C17_Witness ==
    /\ Returned(Application, "PingHades")
    /\ thread[Application].sent[1].ok
    /\ ~thread[Application].ok

\* C18: GetCanSend for a device with a ticker does not wait: its select sets
\* canSend[mac] to whether a tick was pending at that moment, whatever the
\* flag was before, and leaves no tick pending; nothing else changes the flag
\* while the call is in progress; and the call returns the flag.
C18_CanSendTakesPendingTick ==
    [][\A t \in Threads :
          /\ (/\ thread[t].pc = "idle"
              /\ thread'[t].pc \in {"gcs_true", "gcs_return"}
              /\ thread'[t].mac \in DOMAIN sendTicker)
                 => LET mac == thread'[t].mac
                        k == sendTicker[mac]
                    IN  /\ thread'[t].pc = "gcs_return"
                        /\ canSend'[mac] = tickers[k].pending
                        /\ tickers' = [tickers EXCEPT ![k].pending = FALSE]
                        /\ sendTicker' = sendTicker
          /\ (thread[t].pc = "gcs_return" /\ thread'[t] = thread[t])
                 => canSend'[thread[t].mac] = canSend[thread[t].mac]
          /\ (thread[t].pc = "gcs_return" /\ thread'[t] # thread[t])
                 => /\ thread'[t].pc = "ret"
                    /\ thread'[t].ok = canSend[thread[t].mac]
                    /\ canSend' = canSend
                    /\ tickers' = tickers]_vars

\* after one TimerSet and nothing else, a first GetCanSend has returned true
\* and a second one, which finds the flag true and no tick, has set it false
C18_Witness ==
    /\ ctl = 1 /\ Len(tickers) = 1
    /\ Returned("t1", "GetCanSend") /\ thread["t1"].mac = Mac1 /\ thread["t1"].ok
    /\ thread["t2"].pc = "gcs_return" /\ thread["t2"].mac = Mac1
    /\ ~canSend[Mac1]

\* C19: outside the processing of a TimerSet, the devices with a ticker are
\* the devices for which a TimerSet has been processed; and no step other
\* than the NewTicker of a TimerSet adds or removes a ticker entry.
C19_TickerIffTimerSet ==
    [][/\ (DOMAIN sendTicker' # DOMAIN sendTicker) => owner.pc = "set_ticker"
       /\ owner'.pc # "set_cansend" => DOMAIN sendTicker' = DOMAIN processed']_vars

\* Mac1 has a ticker after its TimerSet and a reset; Mac2, asked about, has none
C19_Witness ==
    /\ owner.pc = "select"
    /\ Mac1 \in DOMAIN processed /\ Mac1 \in DOMAIN sendTicker
    /\ Len(tickers) = 2 /\ tickers[1].period = tickers[2].period
    /\ Mac2 \notin DOMAIN sendTicker
    /\ \E t \in Threads : Returned(t, "GetCanSend") /\ thread[t].mac = Mac2

\* C20: every ticker that has not been stopped is the one the registry holds
\* for a device, so a device has at most one running ticker.
C20_OneRunningTickerPerDevice ==
    \A k \in 1..Len(tickers) :
        ~tickers[k].stopped => \E m \in DOMAIN sendTicker : sendTicker[m] = k

\* a second TimerSet for Mac1 has replaced its ticker by one of another period
C20_Witness ==
    /\ owner.pc = "select"
    /\ Len(tickers) = 2
    /\ tickers[1].stopped /\ ~tickers[2].stopped
    /\ tickers[1].period # tickers[2].period
    /\ sendTicker[Mac1] = 2

\* C21: processing a TimerReset for a device that has a ticker shuts its gate,
\* stops its ticker and puts a new one of the same period in its place, with
\* no tick pending, without a change to any send interval; and a GetCanSend
\* for a device whose ticker has not fired since it was put in place returns
\* false.
C21_ResetRestartsWindow ==
    [][/\ (owner.pc \in {"reset_lock", "reset_stop", "reset_ticker"}
             /\ owner.mac \in DOMAIN sendTicker)
              => /\ currentSendInterval' = currentSendInterval
                 /\ owner'.pc # "panic"
       /\ (owner.pc = "reset_ticker" /\ owner'.pc = "select")
              => LET mac == owner.mac
                     old == sendTicker[mac]
                     new == sendTicker'[mac]
                 IN  /\ canSend'[mac] = FALSE
                     /\ new # old
                     /\ tickers'[old].stopped
                     /\ tickers'[new] = [period |-> tickers[old].period,
                                         stopped |-> FALSE, pending |-> FALSE]
       /\ \A t \in Threads :
              (thread[t].pc = "gcs_return" /\ thread'[t] # thread[t] /\ ~thread[t].open)
                  => ~thread'[t].ok]_vars

\* a tick was pending when the reset replaced the ticker, and the GetCanSend
\* made after the reset has returned false
C21_Witness ==
    /\ owner.pc = "select" /\ owner.newTime = NoTimer /\ owner.mac = Mac1
    /\ Len(tickers) = 2 /\ sendTicker[Mac1] = 2
    /\ tickers[1].pending /\ tickers[1].stopped
    /\ ~tickers[2].pending
    /\ \E t \in Threads :
           Returned(t, "GetCanSend") /\ thread[t].mac = Mac1 /\ thread[t].armed
               /\ ~thread[t].ok

\* C22: the tickers the sendTimer goroutine makes follow the order in which
\* their TimerSets were sent; when the goroutine waits and no sender does,
\* every control message sent has been processed and the interval of the
\* device is the one of the last TimerSet sent; and when a sender waits on
\* each channel, the goroutine may take either.
C22_ProcessedInSendOrder ==
    /\ \A i, j \in 1..Len(tickers) :
           i < j => tickers[i].period <= tickers[j].period
    /\ (/\ owner.pc = "select"
        /\ \A t \in Threads : thread[t].pc \notin {"send_set", "send_reset"}
        /\ ctl > 0)
           => /\ Len(tickers) = ctl
              /\ currentSendInterval[Mac1] = tickers[Len(tickers)].period
              /\ currentSendInterval[Mac1] = processed[Mac1]
    /\ (/\ owner.pc = "select"
        /\ thread[Application].pc = "send_set"
        /\ thread[Router].pc = "send_reset")
           => /\ ENABLED RecvSetTimer(Application)
              /\ ENABLED RecvResetTimer(Router)

\* the application has sent a TimerSet for one second and then one for two
\* seconds; both are processed and the interval read is two seconds
C22_Witness ==
    /\ ctl = 2 /\ owner.pc = "select" /\ thread[Application].pc = "idle"
    /\ Len(tickers) = 2
    /\ tickers[1].period = 1 * Second /\ tickers[2].period = 2 * Second
    /\ Returned(Router, "GetCurrentSendInterval")
    /\ thread[Router].dur = 2 * Second

\* C23: a sender leaves its send only in the step in which the sendTimer
\* goroutine, waiting in its select, takes the message the sender holds; and
\* every sender that waits is served.
C23_SendersAreServed ==
    /\ [][\A t \in Threads :
              (thread[t].pc \in {"send_set", "send_reset"} /\ thread'[t] # thread[t])
                  => /\ owner.pc = "select" /\ owner'.pc # "select"
                     /\ owner'.mac = thread[t].mac
                     /\ thread[t].pc = "send_set" => owner'.newTime = thread[t].msg]_vars
    /\ \A t \in Threads :
           (thread[t].pc \in {"send_set", "send_reset"}) ~> (thread[t].pc = "idle")

\* the places of the sendTimer goroutine between its Lock and its Unlock
OwnerCritical ==
    {"set_interval", "set_ticker", "set_cansend", "reset_stop", "reset_ticker", "panic"}

\* the three registry entries of a device that has a ticker agree
WholeEntry(m) ==
    /\ m \in DOMAIN currentSendInterval /\ m \in DOMAIN canSend
    /\ ~tickers[sendTicker[m]].stopped
    /\ currentSendInterval[m] = tickers[sendTicker[m]].period

\* C24: a goroutine inside GetCanSend or GetCurrentSendInterval holds the
\* mutex and the sendTimer goroutine is not between its Lock and Unlock;
\* whenever the sendTimer goroutine is outside them, every device that has a
\* ticker has a running one whose period is its send interval, and a canSend
\* flag; the step that ends a TimerSet or a TimerReset leaves the flag of its
\* device false; and the flag changes in no other step than those of the
\* sendTimer goroutine and the select of GetCanSend.
C24_NoTornRegistry ==
    /\ [](\A t \in Threads :
             thread[t].pc \in {"gcs_true", "gcs_return", "gsi_read"}
                 => (rwMutex.writer = t /\ owner.pc \notin OwnerCritical))
    /\ [](owner.pc \notin OwnerCritical => \A m \in DOMAIN sendTicker : WholeEntry(m))
    /\ [][ /\ (owner.pc \in {"set_cansend", "reset_ticker"} /\ owner'.pc = "select")
                => canSend'[owner.mac] = FALSE
           /\ (canSend' # canSend)
                => \/ owner.pc \in {"set_cansend", "reset_lock"} /\ owner' # owner
                   \/ \E t \in Threads :
                          thread[t].pc = "idle" /\ thread'[t].pc = "gcs_return"]_vars

\* a caller is inside GetCanSend for a device that has a ticker while the
\* sendTimer goroutine waits for the mutex with the next TimerSet for it
C24_Witness ==
    /\ owner.pc = "set_lock" /\ owner.mac = Mac1
    /\ Mac1 \in DOMAIN sendTicker
    /\ owner.newTime.duration # currentSendInterval[Mac1]
    /\ \E t \in Threads : thread[t].pc = "gcs_return" /\ thread[t].mac = Mac1

\* a goroutine is inside HandlePingResponse or IsConnectedHades
LivenessBusy == \E t \in Threads : thread[t].pc \in {"hpr_set", "ich_read"}

\* a goroutine is inside GetCanSend or GetCurrentSendInterval, or the
\* sendTimer goroutine is between its Lock and its Unlock
RegistryBusy ==
    \/ \E t \in Threads : thread[t].pc \in {"gcs_true", "gcs_return", "gsi_read"}
    \/ owner.pc \in OwnerCritical

\* C25: the liveness state and the registry do not wait for each other: when
\* no goroutine is inside HandlePingResponse or IsConnectedHades, a goroutine
\* about to call one of them can go on, whoever works on the registry; and
\* when nobody works on the registry, the sendTimer goroutine can take the
\* registry's lock, whoever is inside HandlePingResponse or
\* IsConnectedHades.
C25_LivenessHasOwnLock ==
    /\ (thread[Router].pc = "idle" /\ ~LivenessBusy)
           => ENABLED HandlePingResponse(Router)
    /\ (thread[Application].pc = "idle" /\ ~LivenessBusy)
           => ENABLED IsConnectedHades(Application)
    /\ (owner.pc = "set_lock" /\ ~RegistryBusy) => ENABLED SetStop
    /\ (owner.pc = "reset_lock" /\ ~RegistryBusy) => ENABLED ResetCanSendFlag

\* C26: the step of HandleReceiveModel that takes the model in records a
\* reading of the clock in lastModelUpdate; lastModelUpdate never decreases;
\* and a request carries the value lastModelUpdate has when it is built.
C26_ModelTimeRecorded ==
    [][ /\ \A t \in Threads :
               (thread[t].pc = "hrm_save" /\ thread'[t].pc = "send_set")
                   => lastModelUpdate' \in Times
        /\ lastModelUpdate' >= lastModelUpdate
        /\ \A t \in Threads :
               (thread[t].pc = "idle" /\ thread'[t].pc = "publish")
                   => thread'[t].payload[2] = <<"last_model_update", lastModelUpdate>>]_vars

\* C27: the Timer the sendTimer goroutine has received from setTimer has a
\* duration above zero, and so has the period of every ticker made.
C27_DurationsPositive ==
    /\ owner.newTime.timerType = TimerSendInterval => owner.newTime.duration > 0
    /\ \A k \in 1..Len(tickers) : tickers[k].period > 0

\* C28: when a TimerSet for Mac1 has been processed and the publisher keeps
\* asking, then a GetCanSend for Mac1 returns true, unless the sendTimer
\* goroutine takes up another control message for Mac1 first.
C28_GateOpensAgain ==
    \A k \in 1..MaxCtl :
        (/\ owner.pc = "select"
         /\ Mac1 \in DOMAIN processed
         /\ MapGet(sendTicker, Mac1, 0) = k)
            ~> \/ /\ Returned(Publisher, "GetCanSend")
                  /\ thread[Publisher].armed /\ thread[Publisher].ok
               \/ MapGet(sendTicker, Mac1, 0) # k
               \/ owner.pc # "select" /\ owner.mac = Mac1

\* the keys of the registry: the device ids and the empty string, under
\* which a message without a device id is filed
Devices == Macs \cup {EmptyString}

\* all there is to a device in the registry, and what GetCanSend and
\* GetCurrentSendInterval would return for it
DeviceView(m) ==
    [hasTicker |-> m \in DOMAIN sendTicker,
     ticker |-> IF m \in DOMAIN sendTicker THEN tickers[sendTicker[m]] ELSE NewTicker(0),
     hasInterval |-> m \in DOMAIN currentSendInterval,
     interval |-> MapGet(currentSendInterval, m, 0),
     hasFlag |-> m \in DOMAIN canSend,
     flag |-> MapGet(canSend, m, FALSE),
     wouldSend |-> IF NoRules(m) THEN TRUE ELSE tickers[sendTicker[m]].pending,
     wouldWait |-> SendIntervalResult(m)]

C30_GetHandlersIdempotent ==
    /\ [](\A t \in Threads :
             Returned(t, "GetHandlers")
                 => \A i \in 1..Len(HandlerTopics) :
                        thread[t].list[i] = <<Word_hermes>> \o HandlerTopics[i])
    /\ [][handlers' = handlers]_vars
====
